---- MODULE Spec2Model ----
(***************************************************************************)
(* Model of iscsiblk/iscsi.go: the iSCSI target / initiator lifecycle      *)
(* (StartScsi, StopScsi, UpdateScsi and the helpers they drive).  Every    *)
(* call of the iscsi, util and nsfilelock packages is one atomic step      *)
(* whose outcome is chosen among the outcomes its contract allows.         *)
(***************************************************************************)
EXTENDS Integers, Sequences, FiniteSets, TLC

\* ------------------------------------------------------------ constants
TargetLunID == 1
RetryCounts == 5

\* ------------------------------------------------------------ bounds
MaxTid == 2
MaxConns == 2
MaxLen == 3

Callers == {"c1", "c2"}
NoCaller == "none"
Volumes == {<<"v", "_", "a">>, <<"v", ":", "a">>}
BackingFiles == {"img"}
GenericErrors == {"err1", "err2"}
DevicePaths == {"", "/dev/sdx"}

\* ------------------------------------------------------------ strings
\* a string of the program is a sequence of one-character strings
IqnPrefix ==
  <<"i","q","n",".","2","0","1","4","-","0","9",".","c","o","m",".",
    "r","a","n","c","h","e","r",":">>

\* Volume2ISCSIName replacing the first "_" only
Volume2ISCSIName_FirstOnly(name) ==
  [k \in 1..Len(name) |->
     IF name[k] = "_" /\ (\A j \in 1..(k - 1) : name[j] # "_") THEN ":" ELSE name[k]]

Volume2ISCSIName(name) ==
  [k \in 1..Len(name) |-> IF name[k] = "_" THEN ":" ELSE name[k]]

GetTargetName(name) == IqnPrefix \o Volume2ISCSIName(name)

\* ------------------------------------------------------------ errors
\* an error is the sequence of the fragments of its message; nil is <<>>
Nil == <<>>
Errorf(prefix, e) == <<prefix>> \o e
Contains(e, frag) == \E k \in 1..Len(e) : e[k] = frag
ExitStatus21 == "exit status 21"
TimeoutExecuting == "Timeout executing: "
\* the errors an external operation returns when it fails for any other
\* reason: two of them for the operations that are retried, to tell the last
\* error of a loop from the ones before
RetriedOps == {"CreateTarget", "LogoutTarget", "DeleteDiscoveredTarget"}
Failure(op) == {<<op, g>> : g \in IF op \in RetriedOps THEN GenericErrors ELSE {"err1"}}

\* ------------------------------------------------------------ state
VARIABLES
  lock,          \* the caller holding the host-wide file lock, or NoCaller
  pc,            \* where each concurrent caller is in its current call
  frame,         \* the locals of each caller's current call
  dev,           \* the ScsiDevice the callers pass to StartScsi and UpdateScsi
  cnt,           \* per call: how often each external operation was invoked
  targets,       \* tgtd: target id -> live target, or NoTarget
  discovered,    \* initiator: target names with a discovered-target record
  loggedIn,      \* initiator: target names with an active login session
  pendingLogout, \* target names whose timed-out logout may still complete
  started,       \* target name -> the TargetID of its last successful StartScsi, or 0
  names,         \* the volume names GetTargetName is applied to
  iqns           \* what GetTargetName returned for each of them, <<>> before the call

vars == <<lock, pc, frame, dev, cnt, targets, discovered, loggedIn, pendingLogout, started,
          names, iqns>>
nameVars == <<names, iqns>>
hostVars == <<targets, discovered, loggedIn, pendingLogout>>

Tids == 1..MaxTid
TargetNames == {GetTargetName(v) : v \in Volumes}
NoTarget == [name |-> <<>>, luns |-> {}, acl |-> {}, conns |-> 0]
Live(t) == targets[t] # NoTarget
LiveNamed(name) == {t \in Tids : Live(t) /\ targets[t].name = name}
\* no live target and no login session of that name
Absent(name) == LiveNamed(name) = {} /\ name \notin loggedIn

\* the operations of a retry loop, by loop; their counts are kept until
\* another loop starts
LoopOps ==
  [FindNextAvailableTargetID |-> "allocate", CreateTarget |-> "allocate",
   DiscoverTarget |-> "discover", CleanupScsiNodes |-> "discover",
   IsTargetDiscovered |-> "discover", DeleteDiscoveredTarget |-> "discover",
   LogoutTarget |-> "logout", IsTargetLoggedIn |-> "wait",
   CloseConnection |-> "close", Stat |-> "stat", StatOK |-> "stat"]

\* the operations invoked at most once in a call
SingleOps ==
  {"AddLun", "BindInitiator", "UnbindInitiator", "DeleteLun",
   "GetTargetConnections", "DeleteTarget", "LoginTarget", "GetDevice",
   "RescanTarget"}

OpNames == DOMAIN LoopOps \cup SingleOps

MutatingOps ==
  {"CreateTarget", "AddLun", "BindInitiator", "UnbindInitiator", "DeleteLun",
   "CloseConnection", "DeleteTarget", "DiscoverTarget", "CleanupScsiNodes",
   "LoginTarget", "LogoutTarget", "DeleteDiscoveredTarget", "RescanTarget"}

NoCalls == [op \in OpNames |-> 0]

\* kind: the entry point called; target, targetID: the arguments of
\* LogoutTarget / DeleteTarget; i: the counter of the running retry loop;
\* err: the err variable of the running function (the result once the call
\* is done); tid: the tid local of SetupTarget / DeleteTarget; created: the
\* ids CreateTarget returned nil for; mutated: a mutating operation was
\* invoked; toClose: the connections of sessionConnectionsMap not yet closed;
\* wasAbsent: StopScsi was called with no live target and no session of the
\* name; device0: dev.Device when UpdateScsi was called; lastErr: what the
\* last logout or record-removal command of LogoutTarget returned
NoFrame ==
  [kind |-> "none", target |-> <<>>, targetID |-> 0, i |-> 0, err |-> Nil,
   tid |-> 0, created |-> {}, mutated |-> FALSE, loggingOut |-> FALSE,
   deviceFound |-> FALSE, toClose |-> 0, wasAbsent |-> FALSE, device0 |-> "",
   lastErr |-> Nil]

NewScsiDevice(name, backingFile) ==
  [Target |-> GetTargetName(name), TargetID |-> 0, Device |-> "",
   BackingFile |-> backingFile]

Init ==
  /\ lock = NoCaller
  /\ pc = [p \in Callers |-> "idle"]
  /\ frame = [p \in Callers |-> NoFrame]
  /\ dev \in {NewScsiDevice(v, f) : v \in Volumes, f \in BackingFiles}
  /\ cnt = [p \in Callers |-> NoCalls]
  /\ targets = [t \in Tids |-> NoTarget]
  /\ discovered = {}
  /\ loggedIn = {}
  /\ pendingLogout = {}
  /\ started = [n \in TargetNames |-> 0]
  /\ names = <<>>
  /\ iqns = <<>>

\* ------------------------------------------------------------ step helpers
Goto(p, l) == pc' = [pc EXCEPT ![p] = l]
SetFrame(p, f) == frame' = [frame EXCEPT ![p] = f]

\* the counts after one more invocation of op
Count(c, op) ==
  [o \in OpNames |->
     IF o = op THEN c[o] + 1
     ELSE IF o \in DOMAIN LoopOps /\ op \in DOMAIN LoopOps /\ LoopOps[o] # LoopOps[op]
          THEN 0
          ELSE c[o]]
Called(p, op) == cnt' = [cnt EXCEPT ![p] = Count(@, op)]
Called2(p, op1, op2) == cnt' = [cnt EXCEPT ![p] = Count(Count(@, op1), op2)]
Touched(f) == [f EXCEPT !.mutated = TRUE]

\* a call that returned is seen by its caller before anything else happens
NoneDone == \A q \in Callers : pc[q] # "done"
At(p, l) == pc[p] = l /\ NoneDone

\* return from the locked body of a call: the loop locals are gone, the
\* deferred lock.Unlock() runs
ReturnWith(p, f, e) ==
  /\ pc' = [pc EXCEPT ![p] = "done"]
  /\ frame' = [frame EXCEPT ![p] =
                 [f EXCEPT !.err = e, !.i = 0, !.tid = 0, !.toClose = 0,
                           !.loggingOut = FALSE, !.deviceFound = FALSE]]
  /\ lock' = IF lock = p THEN NoCaller ELSE lock

Return(p, e) == ReturnWith(p, frame[p], e)

\* ------------------------------------------------------------ nsfilelock
\* lock.Lock() is one step: granted when no process holds the file lock,
\* failed when another process holds it for the whole of LockTimeout
LockGranted == lock = NoCaller
LockTimedOut(p) == lock \notin {NoCaller, p}
LockError == <<"Fail to lock: ", "timeout">>

\* ------------------------------------------------------------ callers
\* between two calls the ScsiDevice is replaced by a new one
CallNewScsiDevice(p) ==
  /\ At(p, "idle")
  /\ lock = NoCaller
  /\ \E v \in Volumes, f \in BackingFiles : dev' = NewScsiDevice(v, f)
  /\ UNCHANGED <<lock, pc, frame, cnt, hostVars, started, nameVars>>

\* the caller has the result of its call
CallReturned(p) ==
  /\ pc[p] = "done"
  /\ Goto(p, "idle")
  /\ SetFrame(p, NoFrame)
  /\ cnt' = [cnt EXCEPT ![p] = NoCalls]
  /\ UNCHANGED <<lock, dev, hostVars, started, nameVars>>

\* NewNamespaceExecutor, CheckForInitiatorExistence, GetIPToHost
PrecheckErrors ==
  Failure("NewNamespaceExecutor") \cup Failure("CheckForInitiatorExistence")
    \cup Failure("GetIPToHost")

\* ------------------------------------------------------------ StartScsi
\* StartScsi_Lock with the error of lock.Lock() ignored
StartScsi_Lock_ErrorIgnored(p) ==
  /\ At(p, "idle")
  /\ \/ /\ LockGranted
        /\ lock' = p
     \/ /\ LockTimedOut(p)
        /\ UNCHANGED lock
  /\ Goto(p, "StartScsi_precheck")
  /\ SetFrame(p, [NoFrame EXCEPT !.kind = "Start"])
  /\ UNCHANGED <<dev, cnt, hostVars, started, nameVars>>

StartScsi_Lock(p) ==
  /\ At(p, "idle")
  /\ \/ /\ LockGranted
        /\ lock' = p
        /\ Goto(p, "StartScsi_precheck")
        /\ SetFrame(p, [NoFrame EXCEPT !.kind = "Start"])
     \/ /\ LockTimedOut(p)
        /\ Goto(p, "done")
        /\ SetFrame(p, [NoFrame EXCEPT !.kind = "Start", !.err = LockError])
        /\ UNCHANGED lock
  /\ UNCHANGED <<dev, cnt, hostVars, started, nameVars>>

StartScsi_Precheck(p) ==
  /\ At(p, "StartScsi_precheck")
  /\ \/ /\ Goto(p, "SetupTarget_daemon")
        /\ UNCHANGED <<lock, frame>>
     \/ \E e \in PrecheckErrors : Return(p, e)
  /\ UNCHANGED <<dev, cnt, hostVars, started, nameVars>>

\* ------------------------------------------------------------ tgtd (iscsi package)
\* FindNextAvailableTargetID: the first id no live target uses
FreeTids == {t \in Tids : ~Live(t)}
FirstFreeTid == CHOOSE t \in FreeTids : \A u \in FreeTids : t <= u

\* CreateTarget(tid, name) returning nil: the id was free and is now a live
\* target of that name, with no LUN and no initiator bound
CreateTargetOK(tid, name) ==
  /\ tid \in Tids
  /\ ~Live(tid)
  /\ targets' = [targets EXCEPT ![tid] = [NoTarget EXCEPT !.name = name]]

\* AddLun(tid, lun, backingFile, bsType, bsOpts) returning nil
AddLunOK(tid, lun, backingFile) ==
  /\ tid \in Tids
  /\ Live(tid)
  /\ \A l \in targets[tid].luns : l[1] # lun
  /\ targets' = [targets EXCEPT ![tid].luns = @ \cup {<<lun, backingFile>>}]

\* BindInitiator(tid, pattern) returning nil
BindInitiatorOK(tid, pattern) ==
  /\ tid \in Tids
  /\ Live(tid)
  /\ targets' = [targets EXCEPT ![tid].acl = @ \cup {pattern}]

\* ------------------------------------------------------------ SetupTarget
\* SetupTarget returned nil to StartScsi or to UpdateTarget / UpdateScsi
SetupTargetDone(p, f) ==
  /\ Goto(p, IF f.kind = "Start" THEN "StartScsi_discover" ELSE "UpdateScsi_rescan")
  /\ SetFrame(p, [f EXCEPT !.i = 0, !.tid = 0])
  /\ UNCHANGED lock

SetupTarget_StartDaemon(p) ==
  /\ At(p, "SetupTarget_daemon")
  /\ \/ /\ Goto(p, "SetupTarget_find")
        /\ SetFrame(p, [frame[p] EXCEPT !.i = 0, !.tid = 0])
        /\ UNCHANGED lock
     \/ \E e \in Failure("StartDaemon") : Return(p, e)
  /\ UNCHANGED <<dev, cnt, hostVars, started, nameVars>>

SetupTarget_FindNextAvailableTargetID(p) ==
  /\ At(p, "SetupTarget_find")
  /\ frame[p].i < RetryCounts
  /\ Called(p, "FindNextAvailableTargetID")
  /\ \/ /\ FreeTids # {}
        /\ Goto(p, "SetupTarget_create")
        /\ SetFrame(p, [frame[p] EXCEPT !.tid = FirstFreeTid])
        /\ UNCHANGED lock
     \/ \E e \in Failure("FindNextAvailableTargetID") : Return(p, e)
  /\ UNCHANGED <<dev, hostVars, started, nameVars>>

\* AfterCreateFailed with the id of the failed attempt tried again
AfterCreateFailed_SameID(i) ==
  IF i < RetryCounts THEN "SetupTarget_create" ELSE "SetupTarget_addlun"

\* where SetupTarget goes on after a CreateTarget that failed, i counted up
AfterCreateFailed(i) ==
  IF i < RetryCounts THEN "SetupTarget_find" ELSE "SetupTarget_addlun"

SetupTarget_CreateTarget(p) ==
  /\ At(p, "SetupTarget_create")
  /\ Called(p, "CreateTarget")
  /\ \/ /\ CreateTargetOK(frame[p].tid, dev.Target)
        /\ dev' = [dev EXCEPT !.TargetID = frame[p].tid]
        /\ SetFrame(p, Touched([frame[p] EXCEPT !.created = @ \cup {frame[p].tid}]))
        /\ Goto(p, "SetupTarget_addlun")
     \/ /\ SetFrame(p, Touched([frame[p] EXCEPT !.i = @ + 1]))
        /\ Goto(p, AfterCreateFailed(frame[p].i + 1))
        /\ UNCHANGED <<dev, targets>>
  /\ UNCHANGED <<lock, discovered, loggedIn, pendingLogout, started, nameVars>>

SetupTarget_AddLun(p) ==
  /\ At(p, "SetupTarget_addlun")
  /\ Called(p, "AddLun")
  /\ \/ /\ AddLunOK(dev.TargetID, TargetLunID, dev.BackingFile)
        /\ Goto(p, "SetupTarget_bind")
        /\ SetFrame(p, Touched(frame[p]))
        /\ UNCHANGED lock
     \/ /\ \E e \in Failure("AddLun") : ReturnWith(p, Touched(frame[p]), e)
        /\ UNCHANGED targets
  /\ UNCHANGED <<dev, discovered, loggedIn, pendingLogout, started, nameVars>>

SetupTarget_BindInitiator(p) ==
  /\ At(p, "SetupTarget_bind")
  /\ Called(p, "BindInitiator")
  /\ \/ /\ BindInitiatorOK(dev.TargetID, "ALL")
        /\ SetupTargetDone(p, Touched(frame[p]))
     \/ /\ \E e \in Failure("BindInitiator") : ReturnWith(p, Touched(frame[p]), e)
        /\ UNCHANGED targets
  /\ UNCHANGED <<dev, discovered, loggedIn, pendingLogout, started, nameVars>>

\* ------------------------------------------------------------ initiator (iscsi package)
\* the session of a target name is gone: its connections are closed, and a
\* logout that was still pending has nothing left to do
SessionGone(name) ==
  /\ loggedIn' = loggedIn \ {name}
  /\ pendingLogout' = pendingLogout \ {name}
  /\ targets' = [t \in Tids |->
                   IF targets[t].name = name THEN [targets[t] EXCEPT !.conns = 0]
                                             ELSE targets[t]]

\* DiscoverTarget(ip, name, ne): a record of the target appears only when a
\* live target of that name answers; the error it returns is advisory
DiscoverTargetEffect(name) ==
  \/ discovered' = discovered
  \/ /\ LiveNamed(name) # {}
     /\ discovered' = discovered \cup {name}

\* LoginTarget(ip, name, ne) returning nil: needs the discovered record and a
\* live target; a new session opens 1..MaxConns connections on that target
LoginTargetOK(name) ==
  /\ name \in discovered
  /\ loggedIn' = loggedIn \cup {name}
  /\ \E t \in LiveNamed(name) :
       IF name \in loggedIn
       THEN UNCHANGED targets
       ELSE \E c \in 1..MaxConns : targets' = [targets EXCEPT ![t].conns = c]

\* a logout that timed out completes on its own, later
AsyncLogoutCompletes ==
  /\ NoneDone
  /\ \E name \in pendingLogout \cap loggedIn : SessionGone(name)
  /\ UNCHANGED <<lock, pc, frame, dev, cnt, discovered, started, nameVars>>

\* ------------------------------------------------------------ StartScsi, continued
\* what DiscoverTarget returns, whatever it did
DiscoverTargetOutcomes == {Nil} \cup Failure("DiscoverTarget")

\* StartScsi_DiscoverTarget with the loop left only when err is nil as well
StartScsi_DiscoverTarget_ErrChecked(p) ==
  /\ At(p, "StartScsi_discover")
  /\ frame[p].i < RetryCounts
  /\ Called2(p, "DiscoverTarget", "IsTargetDiscovered")
  /\ DiscoverTargetEffect(dev.Target)
  /\ \E e \in DiscoverTargetOutcomes :
       /\ SetFrame(p, Touched([frame[p] EXCEPT !.err = e]))
       /\ Goto(p, IF dev.Target \in discovered' /\ e = Nil THEN "StartScsi_login"
                                                            ELSE "StartScsi_cleanup")
  /\ UNCHANGED <<lock, dev, targets, loggedIn, pendingLogout, started, nameVars>>

\* err = DiscoverTarget(...) (err is only logged), then the IsTargetDiscovered
\* check that decides
StartScsi_DiscoverTarget(p) ==
  /\ At(p, "StartScsi_discover")
  /\ frame[p].i < RetryCounts
  /\ Called2(p, "DiscoverTarget", "IsTargetDiscovered")
  /\ DiscoverTargetEffect(dev.Target)
  /\ \E e \in DiscoverTargetOutcomes :
       SetFrame(p, Touched([frame[p] EXCEPT !.err = e]))
  /\ Goto(p, IF dev.Target \in discovered' THEN "StartScsi_login"
                                              ELSE "StartScsi_cleanup")
  /\ UNCHANGED <<lock, dev, targets, loggedIn, pendingLogout, started, nameVars>>

\* StartScsi_CleanupScsiNodes without the count of the round
StartScsi_CleanupScsiNodes_NoCount(p) ==
  /\ At(p, "StartScsi_cleanup")
  /\ Called(p, "CleanupScsiNodes")
  /\ Goto(p, "StartScsi_discover")
  /\ UNCHANGED <<lock, frame, dev, hostVars, started, nameVars>>

\* CleanupScsiNodes (its error is only logged), the sleep, the next round
StartScsi_CleanupScsiNodes(p) ==
  /\ At(p, "StartScsi_cleanup")
  /\ Called(p, "CleanupScsiNodes")
  /\ SetFrame(p, [frame[p] EXCEPT !.i = @ + 1])
  /\ Goto(p, IF frame[p].i + 1 < RetryCounts THEN "StartScsi_discover"
                                             ELSE "StartScsi_login")
  /\ UNCHANGED <<lock, dev, hostVars, started, nameVars>>

StartScsi_LoginTarget(p) ==
  /\ At(p, "StartScsi_login")
  /\ Called(p, "LoginTarget")
  /\ \/ /\ LoginTargetOK(dev.Target)
        /\ Goto(p, "StartScsi_getdevice")
        /\ UNCHANGED <<lock, frame>>
     \/ /\ \E e \in Failure("LoginTarget") : Return(p, e)
        /\ UNCHANGED <<targets, loggedIn>>
  /\ UNCHANGED <<dev, discovered, pendingLogout, started, nameVars>>

\* dev.Device, err = GetDevice(...): the path is assigned whatever err is
StartScsi_GetDevice(p) ==
  /\ At(p, "StartScsi_getdevice")
  /\ Called(p, "GetDevice")
  /\ \/ /\ dev.Target \in loggedIn
        /\ \E path \in DevicePaths : dev' = [dev EXCEPT !.Device = path]
        /\ Goto(p, "StartScsi_stat")
        /\ SetFrame(p, [frame[p] EXCEPT !.i = 0, !.err = Nil, !.deviceFound = FALSE])
        /\ UNCHANGED lock
     \/ /\ dev' = [dev EXCEPT !.Device = ""]
        /\ \E e \in Failure("GetDevice") : Return(p, e)
  /\ UNCHANGED <<hostVars, started, nameVars>>

\* os.Stat(dev.Device) names an existing device node
StatIsDevice(path, ready) == path # "" /\ ready

DeviceError == <<"Failed to wait for device">>

\* WaitResult without the deviceFound check
WaitResult_Unchecked(deviceFound) == Nil

\* the result of StartScsi once the readiness loop is over
WaitResult(deviceFound) == IF ~deviceFound THEN DeviceError ELSE Nil

StartScsi_Stat(p) ==
  /\ At(p, "StartScsi_stat")
  /\ frame[p].i < RetryCounts
  /\ \E ready \in BOOLEAN :
       IF StatIsDevice(dev.Device, ready)
       THEN /\ Called2(p, "Stat", "StatOK")
            /\ ReturnWith(p, [frame[p] EXCEPT !.deviceFound = TRUE], WaitResult(TRUE))
       ELSE /\ Called(p, "Stat")
            /\ IF frame[p].i + 1 < RetryCounts
               THEN /\ SetFrame(p, [frame[p] EXCEPT !.i = @ + 1])
                    /\ UNCHANGED <<lock, pc>>
               ELSE ReturnWith(p, [frame[p] EXCEPT !.i = @ + 1],
                               WaitResult(frame[p].deviceFound))
  /\ started' = IF frame'[p].err = Nil /\ pc'[p] = "done"
                THEN [started EXCEPT ![dev.Target] = dev.TargetID]
                ELSE started
  /\ UNCHANGED <<dev, hostVars, nameVars>>

\* ------------------------------------------------------------ StopScsi
\* the ids a caller of StopScsi passes: the one in its ScsiDevice, or the one
\* the last successful StartScsi of the target returned
KnownTargetIDs(target) == {dev.TargetID, started[target]}

\* what StopScsi returns when LogoutTarget / DeleteTarget returned e
LogoutFailed(e) == Errorf("Fail to logout target: ", e)
DeleteFailed(e) == Errorf("Fail to delete target: ", e)

StopScsi_Lock(p) ==
  /\ At(p, "idle")
  /\ \/ /\ LockGranted
        /\ lock' = p
        /\ Goto(p, "LogoutTarget_precheck")
        /\ \E volumeName \in Volumes : \E targetID \in KnownTargetIDs(GetTargetName(volumeName)) :
             SetFrame(p, [NoFrame EXCEPT !.kind = "Stop",
                                         !.target = GetTargetName(volumeName),
                                         !.targetID = targetID,
                                         !.wasAbsent = Absent(GetTargetName(volumeName))])
     \/ /\ LockTimedOut(p)
        /\ Goto(p, "done")
        /\ SetFrame(p, [NoFrame EXCEPT !.kind = "Stop", !.err = LockError])
        /\ UNCHANGED lock
  /\ UNCHANGED <<dev, cnt, hostVars, started, nameVars>>

\* ------------------------------------------------------------ LogoutTarget
\* LogoutTarget returned nil: StopScsi goes on to DeleteTarget
LogoutTargetDone(p, f) ==
  /\ Goto(p, "DeleteTarget_gettid")
  /\ SetFrame(p, [f EXCEPT !.i = 0, !.err = Nil, !.loggingOut = FALSE])
  /\ UNCHANGED lock

LogoutTarget_Precheck(p) ==
  /\ At(p, "LogoutTarget_precheck")
  /\ \/ /\ Goto(p, "LogoutTarget_isloggedin")
        /\ UNCHANGED <<lock, frame>>
     \/ \E e \in PrecheckErrors : Return(p, LogoutFailed(e))
  /\ UNCHANGED <<dev, cnt, hostVars, started, nameVars>>

\* LogoutTarget_IsTargetLoggedIn with the logout entered whatever the check says
LogoutTarget_IsTargetLoggedIn_Unchecked(p) ==
  /\ At(p, "LogoutTarget_isloggedin")
  /\ Called(p, "IsTargetLoggedIn")
  /\ Goto(p, "LogoutTarget_logout")
  /\ SetFrame(p, [frame[p] EXCEPT !.i = 0, !.err = Nil, !.loggingOut = FALSE])
  /\ UNCHANGED <<lock, dev, hostVars, started, nameVars>>

LogoutTarget_IsTargetLoggedIn(p) ==
  /\ At(p, "LogoutTarget_isloggedin")
  /\ Called(p, "IsTargetLoggedIn")
  /\ IF frame[p].target \in loggedIn
     THEN /\ Goto(p, "LogoutTarget_logout")
          /\ SetFrame(p, [frame[p] EXCEPT !.i = 0, !.err = Nil, !.loggingOut = FALSE])
          /\ UNCHANGED lock
     ELSE LogoutTargetDone(p, frame[p])
  /\ UNCHANGED <<dev, hostVars, started, nameVars>>

\* iscsi.LogoutTarget(ip, target, ne): what it returns, and what it does
LogoutOutcomes(name) ==
  IF name \in loggedIn
  THEN {Nil, <<"LogoutTarget", TimeoutExecuting>>} \cup Failure("LogoutTarget")
  ELSE {<<"LogoutTarget", ExitStatus21>>} \cup Failure("LogoutTarget")

LogoutEffect(name, e) ==
  IF e = Nil THEN SessionGone(name)
  ELSE IF Contains(e, TimeoutExecuting)
       THEN /\ pendingLogout' = pendingLogout \cup {name}
            /\ UNCHANGED <<targets, loggedIn>>
       ELSE UNCHANGED <<targets, loggedIn, pendingLogout>>

\* the error check at the end of the logout part of LogoutTarget
LogoutChecked(p, f) ==
  IF f.err # Nil
  THEN ReturnWith(p, f, LogoutFailed(Errorf("Failed to logout target: ", f.err)))
  ELSE /\ Goto(p, "LogoutTarget_isdiscovered")
       /\ SetFrame(p, [f EXCEPT !.i = 0])
       /\ UNCHANGED lock

\* LogoutTarget_Logout that keeps the error of the first failed attempt
LogoutTarget_Logout_FirstError(p) ==
  /\ At(p, "LogoutTarget_logout")
  /\ frame[p].i < RetryCounts
  /\ Called(p, "LogoutTarget")
  /\ \E e \in LogoutOutcomes(frame[p].target) :
       LET f == Touched([frame[p] EXCEPT !.lastErr = e])
       IN /\ LogoutEffect(frame[p].target, e)
          /\ IF e = Nil \/ Contains(e, ExitStatus21)
             THEN LogoutChecked(p, [f EXCEPT !.err = Nil])
             ELSE IF Contains(e, TimeoutExecuting)
                  THEN /\ Goto(p, "LogoutTarget_wait")
                       /\ SetFrame(p, [f EXCEPT !.err = e, !.loggingOut = TRUE, !.i = 0])
                       /\ UNCHANGED lock
                  ELSE IF frame[p].i + 1 < RetryCounts
                       THEN /\ SetFrame(p, [f EXCEPT !.err = IF @ = Nil THEN e ELSE @, !.i = @ + 1])
                            /\ UNCHANGED <<lock, pc>>
                       ELSE LogoutChecked(p, [f EXCEPT !.err = IF @ = Nil THEN e ELSE @, !.i = @ + 1])
  /\ UNCHANGED <<dev, discovered, started, nameVars>>

LogoutTarget_Logout(p) ==
  /\ At(p, "LogoutTarget_logout")
  /\ frame[p].i < RetryCounts
  /\ Called(p, "LogoutTarget")
  /\ \E e \in LogoutOutcomes(frame[p].target) :
       LET f == Touched([frame[p] EXCEPT !.lastErr = e])
       IN /\ LogoutEffect(frame[p].target, e)
          /\ IF e = Nil \/ Contains(e, ExitStatus21)
             THEN LogoutChecked(p, [f EXCEPT !.err = Nil])
             ELSE IF Contains(e, TimeoutExecuting)
                  THEN /\ Goto(p, "LogoutTarget_wait")
                       /\ SetFrame(p, [f EXCEPT !.err = e, !.loggingOut = TRUE, !.i = 0])
                       /\ UNCHANGED lock
                  ELSE IF frame[p].i + 1 < RetryCounts
                       THEN /\ SetFrame(p, [f EXCEPT !.err = e, !.i = @ + 1])
                            /\ UNCHANGED <<lock, pc>>
                       ELSE LogoutChecked(p, [f EXCEPT !.err = e, !.i = @ + 1])
  /\ UNCHANGED <<dev, discovered, started, nameVars>>

\* LogoutTarget_Wait that takes the session for gone after the last check
LogoutTarget_Wait_Forgiving(p) ==
  /\ At(p, "LogoutTarget_wait")
  /\ frame[p].loggingOut
  /\ frame[p].i < RetryCounts
  /\ Called(p, "IsTargetLoggedIn")
  /\ IF frame[p].target \notin loggedIn
     THEN LogoutChecked(p, [frame[p] EXCEPT !.err = Nil])
     ELSE IF frame[p].i + 1 < RetryCounts
          THEN /\ SetFrame(p, [frame[p] EXCEPT !.i = @ + 1])
               /\ UNCHANGED <<lock, pc>>
          ELSE LogoutChecked(p, [frame[p] EXCEPT !.i = @ + 1, !.err = Nil])
  /\ UNCHANGED <<dev, hostVars, started, nameVars>>

\* the wait for a timed-out logout to complete
LogoutTarget_Wait(p) ==
  /\ At(p, "LogoutTarget_wait")
  /\ frame[p].loggingOut
  /\ frame[p].i < RetryCounts
  /\ Called(p, "IsTargetLoggedIn")
  /\ IF frame[p].target \notin loggedIn
     THEN LogoutChecked(p, [frame[p] EXCEPT !.err = Nil])
     ELSE IF frame[p].i + 1 < RetryCounts
          THEN /\ SetFrame(p, [frame[p] EXCEPT !.i = @ + 1])
               /\ UNCHANGED <<lock, pc>>
          ELSE LogoutChecked(p, [frame[p] EXCEPT !.i = @ + 1])
  /\ UNCHANGED <<dev, hostVars, started, nameVars>>

LogoutTarget_IsTargetDiscovered(p) ==
  /\ At(p, "LogoutTarget_isdiscovered")
  /\ frame[p].i < RetryCounts
  /\ Called(p, "IsTargetDiscovered")
  /\ IF frame[p].target \notin discovered
     THEN LogoutTargetDone(p, frame[p])
     ELSE /\ Goto(p, "LogoutTarget_deletediscovered")
          /\ UNCHANGED <<lock, frame>>
  /\ UNCHANGED <<dev, hostVars, started, nameVars>>

\* iscsi.DeleteDiscoveredTarget(ip, target, ne)
DeleteDiscoveredOutcomes(name) ==
  IF name \in discovered
  THEN {Nil} \cup Failure("DeleteDiscoveredTarget")
  ELSE {<<"DeleteDiscoveredTarget", ExitStatus21>>} \cup Failure("DeleteDiscoveredTarget")

LogoutTarget_DeleteDiscoveredTarget(p) ==
  /\ At(p, "LogoutTarget_deletediscovered")
  /\ Called(p, "DeleteDiscoveredTarget")
  /\ \E e \in DeleteDiscoveredOutcomes(frame[p].target) :
       LET f == Touched([frame[p] EXCEPT !.lastErr = e])
       IN /\ discovered' = IF e = Nil THEN discovered \ {frame[p].target} ELSE discovered
          /\ IF e = Nil \/ Contains(e, ExitStatus21)
             THEN LogoutTargetDone(p, f)
             ELSE IF frame[p].i + 1 < RetryCounts
                  THEN /\ Goto(p, "LogoutTarget_isdiscovered")
                       /\ SetFrame(p, [f EXCEPT !.err = e, !.i = @ + 1])
                       /\ UNCHANGED lock
                  ELSE ReturnWith(p, [f EXCEPT !.i = @ + 1], LogoutFailed(e))
  /\ UNCHANGED <<dev, targets, loggedIn, pendingLogout, started, nameVars>>

\* ------------------------------------------------------------ DeleteTarget
\* DeleteTarget returned nil: StopScsi returns nil, UpdateTarget sets up again
DeleteTargetDone(p, f) ==
  IF f.kind = "Stop"
  THEN ReturnWith(p, f, Nil)
  ELSE /\ Goto(p, "SetupTarget_daemon")
       /\ SetFrame(p, f)
       /\ UNCHANGED lock

\* DeleteTarget returned e: StopScsi wraps it, UpdateTarget / UpdateScsi pass it on
DeleteTargetFailed(p, f, e) ==
  ReturnWith(p, f, IF f.kind = "Stop" THEN DeleteFailed(e) ELSE e)

\* iscsi.GetTargetTid(name): <<tid, err>>; -1 when no live target has the name
GetTargetTidOutcomes(name) ==
  {<<-1, e>> : e \in Failure("GetTargetTid")}
    \cup (IF LiveNamed(name) = {} THEN {<<-1, Nil>>}
                                  ELSE {<<t, Nil>> : t \in LiveNamed(name)})

\* TidChecked without the comparison of the id found with the caller's
TidChecked_NoFatal(p, tid) ==
  /\ Goto(p, "DeleteTarget_unbind")
  /\ SetFrame(p, [frame[p] EXCEPT !.tid = tid])
  /\ UNCHANGED lock

\* a target was found: logrus.Fatalf ends the process when its id is not the
\* caller's (no deferred call runs), else the teardown starts
TidChecked(p, tid) ==
  /\ IF tid # frame[p].targetID
     THEN pc' = [q \in Callers |-> "exited"]
     ELSE Goto(p, "DeleteTarget_unbind")
  /\ SetFrame(p, [frame[p] EXCEPT !.tid = tid])
  /\ UNCHANGED lock

DeleteTarget_GetTargetTid(p) ==
  /\ At(p, "DeleteTarget_gettid")
  /\ \E r \in GetTargetTidOutcomes(frame[p].target) :
       IF r[2] = Nil /\ r[1] # -1
       THEN TidChecked(p, r[1])
       ELSE DeleteTargetDone(p, frame[p])
  /\ UNCHANGED <<dev, cnt, hostVars, started, nameVars>>

DeleteTarget_UnbindInitiator(p) ==
  /\ At(p, "DeleteTarget_unbind")
  /\ Called(p, "UnbindInitiator")
  /\ \/ /\ frame[p].targetID \in Tids /\ Live(frame[p].targetID)
        /\ targets' = [targets EXCEPT ![frame[p].targetID].acl = @ \ {"ALL"}]
        /\ Goto(p, "DeleteTarget_deletelun")
        /\ SetFrame(p, Touched(frame[p]))
        /\ UNCHANGED lock
     \/ /\ \E e \in Failure("UnbindInitiator") : DeleteTargetFailed(p, Touched(frame[p]), e)
        /\ UNCHANGED targets
  /\ UNCHANGED <<dev, discovered, loggedIn, pendingLogout, started, nameVars>>

DeleteTarget_DeleteLun(p) ==
  /\ At(p, "DeleteTarget_deletelun")
  /\ Called(p, "DeleteLun")
  /\ \/ /\ frame[p].targetID \in Tids /\ Live(frame[p].targetID)
        /\ targets' = [targets EXCEPT ![frame[p].targetID].luns =
                         {l \in @ : l[1] # TargetLunID}]
        /\ Goto(p, "DeleteTarget_getconnections")
        /\ UNCHANGED <<lock, frame>>
     \/ /\ \E e \in Failure("DeleteLun") : DeleteTargetFailed(p, frame[p], e)
        /\ UNCHANGED targets
  /\ UNCHANGED <<dev, discovered, loggedIn, pendingLogout, started, nameVars>>

DeleteTarget_GetTargetConnections(p) ==
  /\ At(p, "DeleteTarget_getconnections")
  /\ Called(p, "GetTargetConnections")
  /\ \/ /\ frame[p].tid \in Tids /\ Live(frame[p].tid)
        /\ SetFrame(p, [frame[p] EXCEPT !.toClose = targets[frame[p].tid].conns])
        /\ Goto(p, IF targets[frame[p].tid].conns > 0 THEN "DeleteTarget_close"
                                                      ELSE "DeleteTarget_delete")
        /\ UNCHANGED lock
     \/ \E e \in Failure("GetTargetConnections") : DeleteTargetFailed(p, frame[p], e)
  /\ UNCHANGED <<dev, hostVars, started, nameVars>>

\* iscsi.CloseConnection(tid, sid, cid) returning nil: the connection is
\* closed, if it was still open
CloseConnectionOK(tid) ==
  targets' = [targets EXCEPT ![tid].conns = IF @ > 0 THEN @ - 1 ELSE 0]

\* DeleteTarget_CloseConnection with the error of CloseConnection ignored
DeleteTarget_CloseConnection_ErrorIgnored(p) ==
  /\ At(p, "DeleteTarget_close")
  /\ frame[p].toClose > 0
  /\ Called(p, "CloseConnection")
  /\ \/ CloseConnectionOK(frame[p].tid)
     \/ UNCHANGED targets
  /\ SetFrame(p, [frame[p] EXCEPT !.toClose = @ - 1])
  /\ Goto(p, IF frame[p].toClose > 1 THEN "DeleteTarget_close"
                                     ELSE "DeleteTarget_delete")
  /\ UNCHANGED <<lock, dev, discovered, loggedIn, pendingLogout, started, nameVars>>

DeleteTarget_CloseConnection(p) ==
  /\ At(p, "DeleteTarget_close")
  /\ frame[p].toClose > 0
  /\ Called(p, "CloseConnection")
  /\ \/ /\ CloseConnectionOK(frame[p].tid)
        /\ SetFrame(p, [frame[p] EXCEPT !.toClose = @ - 1])
        /\ Goto(p, IF frame[p].toClose > 1 THEN "DeleteTarget_close"
                                           ELSE "DeleteTarget_delete")
        /\ UNCHANGED lock
     \/ /\ \E e \in Failure("CloseConnection") :
             DeleteTargetFailed(p, [frame[p] EXCEPT !.toClose = 0], e)
        /\ UNCHANGED targets
  /\ UNCHANGED <<dev, discovered, loggedIn, pendingLogout, started, nameVars>>

DeleteTarget_DeleteTarget(p) ==
  /\ At(p, "DeleteTarget_delete")
  /\ Called(p, "DeleteTarget")
  /\ \/ /\ frame[p].targetID \in Tids /\ Live(frame[p].targetID)
        /\ targets' = [targets EXCEPT ![frame[p].targetID] = NoTarget]
        /\ DeleteTargetDone(p, frame[p])
     \/ /\ \E e \in Failure("DeleteTarget") : DeleteTargetFailed(p, frame[p], e)
        /\ UNCHANGED targets
  /\ UNCHANGED <<dev, discovered, loggedIn, pendingLogout, started, nameVars>>

\* ------------------------------------------------------------ UpdateScsi
UpdateScsi_Lock(p) ==
  /\ At(p, "idle")
  /\ \/ /\ LockGranted
        /\ lock' = p
        /\ Goto(p, "UpdateScsi_precheck")
        /\ SetFrame(p, [NoFrame EXCEPT !.kind = "Update", !.device0 = dev.Device])
     \/ /\ LockTimedOut(p)
        /\ Goto(p, "done")
        /\ SetFrame(p, [NoFrame EXCEPT !.kind = "Update", !.device0 = dev.Device,
                                       !.err = LockError])
        /\ UNCHANGED lock
  /\ UNCHANGED <<dev, cnt, hostVars, started, nameVars>>

\* the checks of UpdateScsi, then UpdateTarget calls
\* DeleteTarget(dev.Target, dev.TargetID)
UpdateScsi_Precheck(p) ==
  /\ At(p, "UpdateScsi_precheck")
  /\ \/ /\ Goto(p, "DeleteTarget_gettid")
        /\ SetFrame(p, [frame[p] EXCEPT !.target = dev.Target,
                                        !.targetID = dev.TargetID])
        /\ UNCHANGED lock
     \/ \E e \in PrecheckErrors : Return(p, e)
  /\ UNCHANGED <<dev, cnt, hostVars, started, nameVars>>

UpdateScsi_RescanTarget(p) ==
  /\ At(p, "UpdateScsi_rescan")
  /\ Called(p, "RescanTarget")
  /\ \/ ReturnWith(p, Touched(frame[p]), Nil)
     \/ \E e \in Failure("RescanTarget") : ReturnWith(p, Touched(frame[p]), e)
  /\ UNCHANGED <<dev, hostVars, started, nameVars>>

\* ------------------------------------------------------------ specification
Next ==
  \/ \E p \in Callers : CallNewScsiDevice(p)
  \/ \E p \in Callers : CallReturned(p)
  \/ \E p \in Callers : StartScsi_Lock(p)
  \/ \E p \in Callers : StartScsi_Precheck(p)
  \/ \E p \in Callers : SetupTarget_StartDaemon(p)
  \/ \E p \in Callers : SetupTarget_FindNextAvailableTargetID(p)
  \/ \E p \in Callers : SetupTarget_CreateTarget(p)
  \/ \E p \in Callers : SetupTarget_AddLun(p)
  \/ \E p \in Callers : SetupTarget_BindInitiator(p)
  \/ \E p \in Callers : StartScsi_DiscoverTarget(p)
  \/ \E p \in Callers : StartScsi_CleanupScsiNodes(p)
  \/ \E p \in Callers : StartScsi_LoginTarget(p)
  \/ \E p \in Callers : StartScsi_GetDevice(p)
  \/ \E p \in Callers : StartScsi_Stat(p)
  \/ \E p \in Callers : StopScsi_Lock(p)
  \/ \E p \in Callers : LogoutTarget_Precheck(p)
  \/ \E p \in Callers : LogoutTarget_IsTargetLoggedIn(p)
  \/ \E p \in Callers : LogoutTarget_Logout(p)
  \/ \E p \in Callers : LogoutTarget_Wait(p)
  \/ \E p \in Callers : LogoutTarget_IsTargetDiscovered(p)
  \/ \E p \in Callers : LogoutTarget_DeleteDiscoveredTarget(p)
  \/ \E p \in Callers : DeleteTarget_GetTargetTid(p)
  \/ \E p \in Callers : DeleteTarget_UnbindInitiator(p)
  \/ \E p \in Callers : DeleteTarget_DeleteLun(p)
  \/ \E p \in Callers : DeleteTarget_GetTargetConnections(p)
  \/ \E p \in Callers : DeleteTarget_CloseConnection(p)
  \/ \E p \in Callers : DeleteTarget_DeleteTarget(p)
  \/ \E p \in Callers : UpdateScsi_Lock(p)
  \/ \E p \in Callers : UpdateScsi_Precheck(p)
  \/ \E p \in Callers : UpdateScsi_RescanTarget(p)
  \/ AsyncLogoutCompletes

Spec == Init /\ [][Next]_vars

\* ------------------------------------------------------------ GetTargetName on its own
\* the volume names of up to MaxLen characters
NameChars == {"a", "_", ":"}
NameInputs == UNION {[1..n -> NameChars] : n \in 0..MaxLen}

NamesInit ==
  /\ lock = NoCaller
  /\ pc = [p \in Callers |-> "idle"]
  /\ frame = [p \in Callers |-> NoFrame]
  /\ dev = NewScsiDevice(<<>>, "img")
  /\ cnt = [p \in Callers |-> NoCalls]
  /\ targets = [t \in Tids |-> NoTarget]
  /\ discovered = {}
  /\ loggedIn = {}
  /\ pendingLogout = {}
  /\ started = [n \in TargetNames |-> 0]
  /\ names \in NameInputs \X NameInputs
  /\ iqns = <<>>

\* GetTargetName is called for each of the names
CallGetTargetName ==
  /\ iqns = <<>>
  /\ iqns' = [k \in 1..2 |-> GetTargetName(names[k])]
  /\ UNCHANGED <<lock, pc, frame, dev, cnt, hostVars, started, names>>

\* another name, to go with the second one
NextNames ==
  /\ iqns # <<>>
  /\ \E n \in NameInputs : names' = <<names[2], n>>
  /\ iqns' = <<>>
  /\ UNCHANGED <<lock, pc, frame, dev, cnt, hostVars, started>>

NamesNext == CallGetTargetName \/ NextNames

SpecNames == NamesInit /\ [][NamesNext]_vars

\* ------------------------------------------------------------ properties
\* the caller is between the acquisition of the lock and its release
InCall(p) == pc[p] \notin {"idle", "done", "exited"}
\* this step invokes op for caller p
Invokes(p, op) == cnt'[p][op] = cnt[p][op] + 1
Returned(p, kind) == pc[p] = "done" /\ frame[p].kind = kind
Mutations(p) == {op \in MutatingOps : cnt[p][op] > 0}
TeardownSteps ==
  {"DeleteTarget_unbind", "DeleteTarget_deletelun", "DeleteTarget_getconnections",
   "DeleteTarget_close", "DeleteTarget_delete"}

\* C1: at most one call at a time is between a successful lock acquisition
\* and its release, and a mutating external operation is invoked only by the
\* call that holds the lock
C1_SerializedByLock ==
  /\ [](\A p, q \in Callers : InCall(p) /\ InCall(q) => p = q)
  /\ [][\A p \in Callers : \A op \in MutatingOps : Invokes(p, op) => lock = p]_vars

\* C1 witness: a call holds the lock and has mutated the host while another
\* call's lock.Lock() timed out
C1_Witness ==
  \E p, q \in Callers :
    /\ InCall(p) /\ lock = p /\ frame[p].mutated
    /\ pc[q] = "done" /\ frame[q].err = LockError

\* C2: a call that acquired the lock has released it once it is over, on
\* every path, the target-ID-mismatch path included
C2_LockReleasedOnEveryExit ==
  \A p \in Callers : pc[p] \in {"done", "exited"} => lock # p

\* C3: the teardown steps of DeleteTarget run only for the live target of the
\* name whose id is the caller's; with another id found the process ends
\* having invoked none of UnbindInitiator, DeleteLun, CloseConnection, DeleteTarget
C3_NoTeardownOnMismatch ==
  \A p \in Callers :
    /\ pc[p] \in TeardownSteps =>
         /\ frame[p].tid = frame[p].targetID
         /\ frame[p].targetID \in LiveNamed(frame[p].target)
    /\ pc[p] = "exited" =>
         \A op \in {"UnbindInitiator", "DeleteLun", "CloseConnection", "DeleteTarget"} :
           cnt[p][op] = 0

\* C3 witness: the process ended on a live target whose id is not the caller's
C3_Witness ==
  \E p \in Callers :
    /\ pc[p] = "exited"
    /\ frame[p].tid # frame[p].targetID
    /\ frame[p].tid \in LiveNamed(frame[p].target)

\* C4: when all RetryCounts CreateTarget attempts failed, SetupTarget invokes
\* neither AddLun nor BindInitiator and the call returns the creation error
C4_ExhaustedCreateReturnsError ==
  \A p \in Callers :
    (cnt[p]["CreateTarget"] = RetryCounts /\ frame[p].created = {}) =>
      /\ cnt[p]["AddLun"] = 0
      /\ cnt[p]["BindInitiator"] = 0
      /\ pc[p] = "done" => frame[p].err \in Failure("CreateTarget")

\* SetupTarget has just returned nil
SetupTargetSucceeded(p) ==
  \/ pc[p] = "UpdateScsi_rescan"
  \/ pc[p] = "StartScsi_discover" /\ cnt[p]["DiscoverTarget"] = 0

\* C5: when SetupTarget returns nil, dev.TargetID is the id of a live target
\* of dev.Target that this call created, with the LUN on dev's backing file
\* and ALL initiators bound
C5_SetupTargetPostcondition ==
  \A p \in Callers :
    SetupTargetSucceeded(p) =>
      /\ dev.TargetID \in frame[p].created
      /\ dev.TargetID \in LiveNamed(dev.Target)
      /\ targets[dev.TargetID].luns = {<<TargetLunID, dev.BackingFile>>}
      /\ "ALL" \in targets[dev.TargetID].acl

\* C6: a StopScsi that returns nil for the volume and target id of a
\* successful StartScsi leaves neither a session nor a discovered record
C6_StopLeavesNothing ==
  \A p \in Callers :
    ( /\ Returned(p, "Stop") /\ frame[p].err = Nil
      /\ started[frame[p].target] # 0
      /\ started[frame[p].target] = frame[p].targetID ) =>
      /\ frame[p].target \notin loggedIn
      /\ frame[p].target \notin discovered

\* C7 as stated: StopScsi of an absent target returns nil
C7_StopAbsentSucceeds ==
  \A p \in Callers : (Returned(p, "Stop") /\ frame[p].wasAbsent) => frame[p].err = Nil

\* C7 amended: StopScsi of an absent target invokes no mutating operation,
\* leaves the host state as it is, and returns nil unless one of the checks
\* at the start of LogoutTarget failed
C7_StopAbsentIsNoOp ==
  /\ [](\A p \in Callers :
          (frame[p].kind = "Stop" /\ frame[p].wasAbsent) =>
            /\ Mutations(p) = {} /\ ~frame[p].mutated
            /\ Absent(frame[p].target)
            /\ pc[p] = "done" =>
                 frame[p].err \in {Nil} \cup {LogoutFailed(e) : e \in PrecheckErrors})
  /\ [][\A p \in Callers :
          (frame[p].kind = "Stop" /\ frame[p].wasAbsent /\ pc'[p] # pc[p]) =>
            UNCHANGED hostVars]_vars

\* C7 witness: StopScsi of an absent target went through LogoutTarget and
\* DeleteTarget and returned nil
C7_Witness ==
  \E p \in Callers :
    /\ Returned(p, "Stop") /\ frame[p].wasAbsent /\ frame[p].err = Nil
    /\ cnt[p]["IsTargetLoggedIn"] = 1

\* C8: StartScsi returns nil only with a non-empty dev.Device that a
\* readiness check saw as a device; when none of the checks sees it,
\* StartScsi returns the error after exactly RetryCounts checks
C8_StartNeedsReadyDevice ==
  \A p \in Callers :
    Returned(p, "Start") =>
      /\ frame[p].err = Nil => (dev.Device # "" /\ cnt[p]["StatOK"] >= 1)
      /\ (cnt[p]["Stat"] > 0 /\ cnt[p]["StatOK"] = 0) =>
           (frame[p].err = DeviceError /\ cnt[p]["Stat"] = RetryCounts)

\* C8 witness: StartScsi returned nil on a check that followed failed ones
C8_Witness ==
  \E p \in Callers :
    /\ Returned(p, "Start") /\ frame[p].err = Nil
    /\ cnt[p]["Stat"] > 1 /\ cnt[p]["StatOK"] = 1

\* C9: at most one live target has a given name, and a live target has at
\* most one LUN
C9_OneTargetPerName ==
  /\ \A n \in TargetNames : Cardinality(LiveNamed(n)) <= 1
  /\ \A t \in Tids : Cardinality(targets[t].luns) <= 1

\* C10: UpdateScsi never invokes DiscoverTarget, LoginTarget or LogoutTarget;
\* when it returns nil it has invoked RescanTarget once, the live target of
\* the name is the one this call created after the old one was deleted, and
\* dev.Device is what it was
C10_UpdateRecreatesAndRescans ==
  \A p \in Callers :
    frame[p].kind = "Update" =>
      /\ \A op \in {"DiscoverTarget", "LoginTarget", "LogoutTarget"} : cnt[p][op] = 0
      /\ (pc[p] = "done" /\ frame[p].err = Nil) =>
           /\ cnt[p]["RescanTarget"] = 1
           /\ frame[p].created # {}
           /\ LiveNamed(dev.Target) = frame[p].created
           /\ dev.Target = frame[p].target
           /\ dev.Device = frame[p].device0

\* DeleteTarget has just returned nil to StopScsi or to UpdateTarget
DeleteTargetSucceeded(p) ==
  \/ Returned(p, "Stop") /\ frame[p].err = Nil
  \/ frame[p].kind = "Update" /\ pc[p] = "SetupTarget_daemon"

\* C11: when DeleteTarget(target, targetID) returns nil, no live target of
\* that name is left on the host
C11_DeleteTargetLeavesNoTarget ==
  \A p \in Callers : DeleteTargetSucceeded(p) => LiveNamed(frame[p].target) = {}

\* the two names differ in length, or at a place where neither has "_"
DifferOutsideUnderscore(a, b) ==
  \/ Len(a) # Len(b)
  \/ \E j \in 1..Len(a) : a[j] # b[j] /\ a[j] # "_" /\ b[j] # "_"

\* C12: GetTargetName(name) is "iqn.2014-09.com.rancher:" followed by name
\* with every "_" replaced by ":"; the same name gives the same target, and
\* two names that differ outside their "_" give different targets
C12_GetTargetName ==
  iqns # <<>> =>
    /\ \A k \in 1..2 :
         /\ Len(iqns[k]) = 24 + Len(names[k])
         /\ SubSeq(iqns[k], 1, 24) = IqnPrefix
         /\ \A j \in 1..Len(names[k]) :
              iqns[k][24 + j] = IF names[k][j] = "_" THEN ":" ELSE names[k][j]
    /\ names[1] = names[2] => iqns[1] = iqns[2]
    /\ DifferOutsideUnderscore(names[1], names[2]) => iqns[1] # iqns[2]

\* C12 witness: two names with several "_" each that differ outside them
\* got different targets
C12_Witness ==
  /\ iqns # <<>>
  /\ \A k \in 1..2 : Cardinality({j \in 1..Len(names[k]) : names[k][j] = "_"}) >= 2
  /\ DifferOutsideUnderscore(names[1], names[2])
  /\ iqns[1] # iqns[2]

\* C13: in SetupTarget every CreateTarget attempt follows a
\* FindNextAvailableTargetID query of its own; N failed attempts and a
\* success make N+1 attempts; there are never more than RetryCounts; after a
\* failed query no attempt is made
C13_AllocationAttempts ==
  \A p \in Callers :
    LET finds == cnt[p]["FindNextAvailableTargetID"]
        creates == cnt[p]["CreateTarget"]
    IN /\ creates <= RetryCounts
       /\ pc[p] = "SetupTarget_find" => (finds = creates /\ creates = frame[p].i)
       /\ pc[p] = "SetupTarget_create" => (finds = creates + 1 /\ creates = frame[p].i)
       /\ (pc[p] \in {"SetupTarget_addlun", "SetupTarget_bind"} /\ frame[p].created # {}) =>
            /\ frame[p].i < RetryCounts
            /\ creates = frame[p].i + 1
            /\ finds = creates
       /\ (pc[p] = "done" /\ frame[p].err \in Failure("FindNextAvailableTargetID")) =>
            finds = creates + 1

\* C13 witness: CreateTarget succeeded after two failed attempts
C13_Witness ==
  \E p \in Callers :
    /\ pc[p] = "SetupTarget_addlun" /\ frame[p].created # {}
    /\ frame[p].i = 2 /\ cnt[p]["CreateTarget"] = 3

\* C14: in the discovery loop of StartScsi CleanupScsiNodes follows each
\* attempt that IsTargetDiscovered did not confirm and no other; k
\* unconfirmed attempts and a confirmed one make k+1 DiscoverTarget calls and
\* k cleanups; a confirmed attempt ends the loop whatever DiscoverTarget returned
C14_CleanupAfterUnconfirmed ==
  /\ [](\A p \in Callers :
          LET discovers == cnt[p]["DiscoverTarget"]
              cleanups == cnt[p]["CleanupScsiNodes"]
          IN /\ pc[p] = "StartScsi_discover" =>
                  (discovers = cleanups /\ cleanups = frame[p].i)
             /\ pc[p] = "StartScsi_cleanup" =>
                  /\ discovers = cleanups + 1 /\ cleanups = frame[p].i
                  /\ dev.Target \notin discovered
             /\ pc[p] = "StartScsi_login" =>
                  IF dev.Target \in discovered
                  THEN discovers = cleanups + 1 /\ cleanups = frame[p].i
                                                /\ cleanups < RetryCounts
                  ELSE discovers = cleanups /\ cleanups = RetryCounts
             /\ pc[p] \in {"StartScsi_discover", "StartScsi_cleanup", "StartScsi_login"} =>
                  cnt[p]["IsTargetDiscovered"] = discovers)
  /\ [][\A p \in Callers :
          (Invokes(p, "DiscoverTarget") /\ dev.Target \in discovered') =>
            (pc'[p] = "StartScsi_login" /\ ~Invokes(p, "CleanupScsiNodes"))]_vars

\* C14 witness: the third attempt was confirmed although DiscoverTarget
\* returned an error, after two cleanups
C14_Witness ==
  \E p \in Callers :
    /\ pc[p] = "StartScsi_login" /\ dev.Target \in discovered
    /\ frame[p].err # Nil
    /\ cnt[p]["DiscoverTarget"] = 3 /\ cnt[p]["CleanupScsiNodes"] = 2

\* C15: StartScsi invokes LoginTarget only with the target confirmed
\* discovered; when RetryCounts attempts have confirmed nothing, no login is
\* attempted and StartScsi returns the discovery failure
C15_LoginOnlyAfterDiscovery ==
  \A p \in Callers :
    /\ pc[p] = "StartScsi_login" => dev.Target \in discovered
    /\ ( /\ frame[p].kind = "Start"
         /\ cnt[p]["DiscoverTarget"] = RetryCounts
         /\ cnt[p]["CleanupScsiNodes"] = RetryCounts ) =>
         /\ cnt[p]["LoginTarget"] = 0
         /\ pc[p] = "done" => frame[p].err \in Failure("DiscoverTarget")

\* C16: when LogoutTarget returns nil the target is not discovered, also
\* when it had no login session at entry
C16_LogoutRemovesDiscoveredRecord ==
  \A p \in Callers :
    (frame[p].kind = "Stop" /\ pc[p] = "DeleteTarget_gettid") =>
      frame[p].target \notin discovered

TimedOut == <<"LogoutTarget", TimeoutExecuting>>

\* C17: after a logout command that timed out LogoutTarget issues no other
\* logout command; it checks IsTargetLoggedIn at most RetryCounts times, goes
\* on to the removal of the discovered record exactly when a check finds no
\* session, and else returns an error that carries the timeout error
C17_TimeoutThenPolling ==
  /\ [](\A p \in Callers :
          /\ pc[p] = "LogoutTarget_wait" =>
               /\ frame[p].loggingOut /\ frame[p].err = TimedOut
               /\ cnt[p]["IsTargetLoggedIn"] = frame[p].i /\ frame[p].i < RetryCounts
          /\ (Returned(p, "Stop") /\ Contains(frame[p].err, TimeoutExecuting)) =>
               /\ frame[p].err = LogoutFailed(Errorf("Failed to logout target: ", TimedOut))
               /\ cnt[p]["IsTargetLoggedIn"] = RetryCounts
               /\ cnt[p]["IsTargetDiscovered"] = 0
               /\ cnt[p]["DeleteDiscoveredTarget"] = 0)
  /\ [][\A p \in Callers :
          /\ Invokes(p, "LogoutTarget") => ~frame[p].loggingOut
          /\ (pc[p] = "LogoutTarget_wait" /\ Invokes(p, "IsTargetLoggedIn")) =>
               /\ pc'[p] = "LogoutTarget_isdiscovered" <=> frame[p].target \notin loggedIn
               /\ pc'[p] \in {"LogoutTarget_wait", "LogoutTarget_isdiscovered", "done"}
               /\ pc'[p] = "done" => Contains(frame'[p].err, TimeoutExecuting)]_vars

\* C17 witness: after a timed-out logout the second check found the session
\* gone and the removal of the discovered record is next
C17_Witness ==
  \E p \in Callers :
    /\ pc[p] = "LogoutTarget_isdiscovered" /\ frame[p].loggingOut
    /\ cnt[p]["IsTargetLoggedIn"] = 2 /\ cnt[p]["LogoutTarget"] = 0

NoTeardown(p) ==
  \A op \in {"UnbindInitiator", "DeleteLun", "GetTargetConnections", "CloseConnection",
             "DeleteTarget"} : cnt[p][op] = 0

FailedAt(p, op) ==
  /\ pc[p] = "done"
  /\ frame[p].err \in Failure(op) \cup {DeleteFailed(e) : e \in Failure(op)}

\* the steps of DeleteTarget invoked so far are exactly those of ops
TeardownDone(p, ops) ==
  \A op \in {"UnbindInitiator", "DeleteLun", "GetTargetConnections", "DeleteTarget"} :
    cnt[p][op] = IF op \in ops THEN 1 ELSE 0

\* C19: DeleteTarget invokes UnbindInitiator, DeleteLun, GetTargetConnections,
\* CloseConnection once for each connection enumerated, then the external
\* DeleteTarget, in this order and each at most once; the external
\* DeleteTarget follows the successful close of every enumerated connection;
\* a step that fails ends the call with its error and nothing after it runs
C19_TeardownOrder ==
  /\ [](\A p \in Callers :
          /\ pc[p] = "DeleteTarget_unbind" =>
               (TeardownDone(p, {}) /\ cnt[p]["CloseConnection"] = 0)
          /\ pc[p] = "DeleteTarget_deletelun" =>
               (TeardownDone(p, {"UnbindInitiator"}) /\ cnt[p]["CloseConnection"] = 0)
          /\ pc[p] = "DeleteTarget_getconnections" =>
               /\ TeardownDone(p, {"UnbindInitiator", "DeleteLun"})
               /\ cnt[p]["CloseConnection"] = 0
          /\ pc[p] = "DeleteTarget_close" =>
               /\ TeardownDone(p, {"UnbindInitiator", "DeleteLun", "GetTargetConnections"})
               /\ frame[p].toClose > 0
          /\ pc[p] = "DeleteTarget_delete" =>
               /\ TeardownDone(p, {"UnbindInitiator", "DeleteLun", "GetTargetConnections"})
               /\ frame[p].toClose = 0
               /\ targets[frame[p].tid].conns = 0
          /\ FailedAt(p, "UnbindInitiator") =>
               (TeardownDone(p, {"UnbindInitiator"}) /\ cnt[p]["CloseConnection"] = 0)
          /\ FailedAt(p, "DeleteLun") =>
               /\ TeardownDone(p, {"UnbindInitiator", "DeleteLun"})
               /\ cnt[p]["CloseConnection"] = 0
          /\ FailedAt(p, "GetTargetConnections") =>
               /\ TeardownDone(p, {"UnbindInitiator", "DeleteLun", "GetTargetConnections"})
               /\ cnt[p]["CloseConnection"] = 0
          /\ FailedAt(p, "CloseConnection") =>
               TeardownDone(p, {"UnbindInitiator", "DeleteLun", "GetTargetConnections"})
          /\ FailedAt(p, "DeleteTarget") =>
               TeardownDone(p, {"UnbindInitiator", "DeleteLun", "GetTargetConnections",
                                "DeleteTarget"})
          /\ (\E op \in {"UnbindInitiator", "DeleteLun", "GetTargetConnections",
                         "CloseConnection", "DeleteTarget"} : FailedAt(p, op)) =>
               (cnt[p]["CreateTarget"] = 0 /\ cnt[p]["AddLun"] = 0))
  /\ [][\A p \in Callers :
          /\ Invokes(p, "GetTargetConnections") =>
               \/ pc'[p] = "done"
               \/ /\ frame'[p].toClose = targets[frame[p].tid].conns
                  /\ pc'[p] = IF frame'[p].toClose = 0 THEN "DeleteTarget_delete"
                                                      ELSE "DeleteTarget_close"
          /\ Invokes(p, "CloseConnection") =>
               \/ pc'[p] = "done" /\ FailedAt(p, "CloseConnection")'
               \/ /\ frame'[p].toClose = frame[p].toClose - 1
                  /\ targets'[frame[p].tid].conns < targets[frame[p].tid].conns
                       \/ targets[frame[p].tid].conns = 0
                  /\ pc'[p] = IF frame'[p].toClose = 0 THEN "DeleteTarget_delete"
                                                      ELSE "DeleteTarget_close"
          /\ Invokes(p, "DeleteTarget") =>
               (pc[p] = "DeleteTarget_delete" /\ frame[p].toClose = 0)]_vars

\* C19 witness: in UpdateScsi the target was deleted after each of its
\* MaxConns connections was closed
C19_Witness ==
  \E p \in Callers :
    /\ frame[p].kind = "Update" /\ pc[p] = "SetupTarget_daemon"
    /\ cnt[p]["DeleteTarget"] = 1
    /\ cnt[p]["CloseConnection"] = MaxConns

\* the phases of a call in the order they are run; the two steps of a loop
\* body share a phase
Phase ==
  [UpdateScsi_precheck |-> 1, LogoutTarget_precheck |-> 2, LogoutTarget_isloggedin |-> 3,
   LogoutTarget_logout |-> 4, LogoutTarget_wait |-> 5, LogoutTarget_isdiscovered |-> 6,
   LogoutTarget_deletediscovered |-> 6, DeleteTarget_gettid |-> 7, DeleteTarget_unbind |-> 8,
   DeleteTarget_deletelun |-> 9, DeleteTarget_getconnections |-> 10,
   DeleteTarget_close |-> 11, DeleteTarget_delete |-> 12, StartScsi_precheck |-> 13,
   SetupTarget_daemon |-> 14, SetupTarget_find |-> 15, SetupTarget_create |-> 15,
   SetupTarget_addlun |-> 16, SetupTarget_bind |-> 17, UpdateScsi_rescan |-> 18,
   StartScsi_discover |-> 19, StartScsi_cleanup |-> 19, StartScsi_login |-> 20,
   StartScsi_getdevice |-> 21, StartScsi_stat |-> 22]

\* the first step of the body of each loop, and the second one where there is one
LoopHeads ==
  {"SetupTarget_find", "StartScsi_discover", "StartScsi_stat", "LogoutTarget_logout",
   "LogoutTarget_wait", "LogoutTarget_isdiscovered"}
LoopSeconds == {"SetupTarget_create", "StartScsi_cleanup", "LogoutTarget_deletediscovered"}

\* the iterations the running loop has left
Remaining(p) ==
  IF pc[p] \in LoopHeads \cup LoopSeconds THEN RetryCounts - frame[p].i
  ELSE IF pc[p] = "DeleteTarget_close" THEN frame[p].toClose
  ELSE 0

\* a bound on the steps the call has left
Rank(p) ==
  IF pc[p] \notin DOMAIN Phase THEN 0
  ELSE (2 * (RetryCounts + MaxConns) + 1) * (Cardinality(DOMAIN Phase) - Phase[pc[p]])
         + 2 * Remaining(p) - (IF pc[p] \in LoopSeconds THEN 1 ELSE 0)

\* any step of the call of p
StepOf(p) ==
  \/ StartScsi_Precheck(p) \/ SetupTarget_StartDaemon(p)
  \/ SetupTarget_FindNextAvailableTargetID(p) \/ SetupTarget_CreateTarget(p)
  \/ SetupTarget_AddLun(p) \/ SetupTarget_BindInitiator(p)
  \/ StartScsi_DiscoverTarget(p) \/ StartScsi_CleanupScsiNodes(p)
  \/ StartScsi_LoginTarget(p) \/ StartScsi_GetDevice(p) \/ StartScsi_Stat(p)
  \/ LogoutTarget_Precheck(p) \/ LogoutTarget_IsTargetLoggedIn(p)
  \/ LogoutTarget_Logout(p) \/ LogoutTarget_Wait(p)
  \/ LogoutTarget_IsTargetDiscovered(p) \/ LogoutTarget_DeleteDiscoveredTarget(p)
  \/ DeleteTarget_GetTargetTid(p) \/ DeleteTarget_UnbindInitiator(p)
  \/ DeleteTarget_DeleteLun(p) \/ DeleteTarget_GetTargetConnections(p)
  \/ DeleteTarget_CloseConnection(p) \/ DeleteTarget_DeleteTarget(p)
  \/ UpdateScsi_Precheck(p) \/ UpdateScsi_RescanTarget(p)

\* C20: a call never waits on anything but the external operation it is in,
\* every loop makes at most RetryCounts iterations (the closing of
\* connections one per connection), and every step of a call brings it
\* nearer to its end: the call terminates after a bounded number of external
\* operations
C20_CallsTerminate ==
  /\ [](\A p \in Callers :
          /\ (InCall(p) /\ NoneDone) => ENABLED StepOf(p)
          /\ \A op \in DOMAIN LoopOps \ {"CloseConnection"} : cnt[p][op] <= RetryCounts
          /\ cnt[p]["CloseConnection"] <= MaxConns
          /\ \A op \in SingleOps : cnt[p][op] <= 1
          /\ Rank(p) >= 0)
  /\ [][\A p \in Callers :
          (InCall(p) /\ <<pc[p], frame[p], cnt[p]>>' # <<pc[p], frame[p], cnt[p]>>) =>
            Rank(p)' < Rank(p)]_vars

\* C20 witness: StartScsi ended with the device error after all RetryCounts
\* readiness checks failed
C20_Witness ==
  \E p \in Callers :
    /\ Returned(p, "Start") /\ frame[p].err = DeviceError
    /\ cnt[p]["Stat"] = RetryCounts /\ cnt[p]["StatOK"] = 0

====
